---- MODULE Spec2Model ----
(***************************************************************************)
(* Model of src/extract_audio.py: the dependency check, the single-item   *)
(* extractor extract_audio, the batch driver batch_extract_audio and the   *)
(* command-line entry point main.                                          *)
(*                                                                         *)
(* Strings that the program inspects character by character (the lines of  *)
(* the URL list file, the URLs) are sequences of one-character strings.    *)
(* The outcome of every external collaborator (which, pip3, os.makedirs,   *)
(* the yt_dlp import, YoutubeDL.extract_info, the python3 -m yt_dlp        *)
(* subprocess) is chosen by the environment when the step runs.            *)
(***************************************************************************)
EXTENDS Integers, Sequences, FiniteSets, TLC

VARIABLES
    entry,          \* "main": python extract_audio.py ...; "batch": batch_extract_audio(list) called directly
    args_url,       \* args.url  (None, or a string)
    args_file,      \* args.file (None, or a string)
    fileExists,     \* os.path.exists(args.file)
    fileReadable,   \* open()/iteration of the file does not raise
    fileLines,      \* the lines of the file
    dirState,       \* what is at output_dir: "absent", "dir" or "file"
    creatable,      \* whether os.makedirs(output_dir) can succeed when it is absent
    pc,             \* position in main / batch_extract_audio
    exitCode,       \* process exit status, -1 while the process runs
    crashed,        \* the process ended with an uncaught exception (traceback)
    depsRet,        \* what install_dependencies did: "none", "true", "false", "raised"
    whichOut,       \* outcome of `which ffmpeg`
    pipShowOut,     \* outcome of `pip3 show yt-dlp`
    pipInstallOut,  \* outcome of `pip3 install yt-dlp`
    installAttempts,\* number of `pip3 install` runs
    fileChecked,    \* os.path.exists(args.file) was evaluated
    fileOpened,     \* open(args.file) was attempted
    batchStarted,   \* batch_extract_audio was entered
    video_urls,     \* the list batch_extract_audio iterates
    i,              \* enumerate index of the item in progress (items started so far)
    success_count,
    fail_count,
    failed_urls,
    summaryPrinted, \* the final summary of the batch was printed
    epc,            \* position in extract_audio: "idle", "dir", "import", "inproc", "cmd", "ret"
    eret,           \* what the running/last extract_audio call did: "none", "true", "false", "raised"
    msg,            \* the last message extract_audio printed
    title,          \* the title extract_audio printed, NoTitle if it printed none
    mkdirFailed,    \* the current call's os.makedirs raised
    importOut,      \* outcome of the current call's `import yt_dlp`
    startedInproc,  \* the current call reached ydl.extract_info
    startedCmd,     \* the current call reached subprocess.run(cmd)
    inprocOut,      \* outcome of the current call's ydl.extract_info
    cmdOut,         \* outcome of the current call's subprocess.run(cmd)
    calls,          \* the url of every extract_audio call, in call order
    returns,        \* the boolean every finished extract_audio call returned
    everEnsured,    \* some call's ensure-directory step succeeded
    everDirFailed   \* some call's ensure-directory step failed after an earlier success

vars == << entry, args_url, args_file, fileExists, fileReadable, fileLines,
           dirState, creatable, pc, exitCode, crashed, depsRet, whichOut,
           pipShowOut, pipInstallOut, installAttempts, fileChecked, fileOpened,
           batchStarted, video_urls, i, success_count, fail_count, failed_urls,
           summaryPrinted, epc, eret, msg, title, mkdirFailed, importOut,
           startedInproc, startedCmd, inprocOut, cmdOut, calls, returns, everEnsured,
           everDirFailed >>

mainVars == << pc, exitCode, crashed, fileChecked, fileOpened >>
inputVars == << entry, args_url, args_file, fileExists, fileReadable, fileLines, creatable >>
depsVars == << depsRet, whichOut, pipShowOut, pipInstallOut, installAttempts >>
batchVars == << batchStarted, video_urls, i, success_count, fail_count, failed_urls, summaryPrinted >>
itemVars == << epc, eret, msg, title, mkdirFailed, importOut, startedInproc, startedCmd, inprocOut,
               cmdOut, calls, returns, everEnsured, everDirFailed, dirState >>

(***************************************************************************)
(* Bounds                                                                  *)
(***************************************************************************)
MaxUrls == 3        \* most lines of the URL file / most URLs of a direct batch call

(***************************************************************************)
(* Values                                                                  *)
(***************************************************************************)
None == << "None" >>                 \* argparse's value of an option not given

SeqUpTo(S, n) == UNION { [1..k -> S] : k \in 0..n }

\* lines of the URL file: empty, whitespace only, a URL, a URL in whitespace,
\* another URL
Lines == { << >>, << " " >>, << "a" >>, << " ", "a", " " >>, << "b" >> }
Files == SeqUpTo(Lines, MaxUrls)
DirectUrls == { << "a" >>, << "b" >> }

ProcOutcomes == {"ok", "nonzero", "nolaunch"}   \* exit 0; CalledProcessError; OSError at launch

NoneVal == "None"                    \* Python's None as a dict value
NoTitle == "<no title printed>"
DefaultTitle == "unknown"            \* the literal default of info.get('title', ...)
TitleValues == {"T", "", NoneVal}

\* what extract_info can return: None, or a dict with or without a 'title' key
InfoNone == [none |-> TRUE, keys |-> {}, title |-> NoneVal]
Infos == {InfoNone, [none |-> FALSE, keys |-> {}, title |-> NoneVal]}
             \cup { [none |-> FALSE, keys |-> {"title"}, title |-> t] : t \in TitleValues }
NoCall == [kind |-> "nocall", exc |-> "", info |-> InfoNone]
InprocOutcomes == { [kind |-> "raise", exc |-> e, info |-> InfoNone] : e \in {"ImportError", "DownloadError"} }
                      \cup { [kind |-> "return", exc |-> "", info |-> x] : x \in Infos }

ErrorMsgs == {"mkdir_failed", "unknown_error", "extract_failed"}   \* messages that print the error text

(***************************************************************************)
(* Pure helpers                                                            *)
(***************************************************************************)
\* Python truthiness of an optional string
Truthy(s) == s # None /\ s # << >>

RECURSIVE LStrip(_)
LStrip(s) == IF s # << >> /\ Head(s) = " " THEN LStrip(Tail(s)) ELSE s

RECURSIVE RStrip(_)
RStrip(s) == IF s # << >> /\ s[Len(s)] = " " THEN RStrip(SubSeq(s, 1, Len(s) - 1)) ELSE s

\* str.strip()
Strip(s) == RStrip(LStrip(s))

\* [line.strip() for line in f if line.strip()]
RECURSIVE ReadUrls(_)
ReadUrls(lines) ==
    IF lines = << >> THEN << >>
    ELSE IF Strip(Head(lines)) # << >>
         THEN << Strip(Head(lines)) >> \o ReadUrls(Tail(lines))
         ELSE ReadUrls(Tail(lines))

\* dict.get(key, default)
DictGet(d, k, default) == IF k \in d.keys THEN d[k] ELSE default

(***************************************************************************)
(* Decisions of the code, one operator per decision                        *)
(***************************************************************************)
\* check_ffmpeg: True on exit 0, False on CalledProcessError; any other
\* exception of subprocess.run (the `which` program cannot be launched) is
\* not caught
CheckFfmpeg(o) ==
    CASE o = "ok" -> "true"
      [] o = "nonzero" -> "false"
      [] OTHER -> "raised"

\* install_dependencies, `pip3 show yt-dlp`: only CalledProcessError is caught
PipShow(o) ==
    CASE o = "ok" -> "true"
      [] o = "nonzero" -> "install"
      [] OTHER -> "raised"

\* install_dependencies, `pip3 install yt-dlp`: every Exception is caught
PipInstall(o) == IF o = "ok" THEN "true" ELSE "false"

\* main: if not install_dependencies(): sys.exit(1)
DepsGate_Ignore(r) == "dispatch"
DepsGate(r) == IF r = "false" THEN "exit1" ELSE "dispatch"

\* main: if args.url / elif args.file / else
Branch_FileFirst(u, f) ==
    IF Truthy(f) THEN "file" ELSE IF Truthy(u) THEN "single" ELSE "usage"
Branch(u, f) ==
    IF Truthy(u) THEN "single" ELSE IF Truthy(f) THEN "file" ELSE "usage"

\* main: the value of extract_audio(args.url, ...) is discarded and main
\* returns, so the process exits with status 0
SingleExitCode_FailOnError(r) == IF r = "true" THEN 0 ELSE 1
SingleExitCode(r) == 0

\* extract_audio: if not os.path.exists(output_dir): os.makedirs(output_dir, exist_ok=True)
EnsureDir_NoExistOk(ds, cr) ==
    IF ds # "absent" THEN [ok |-> FALSE, ds |-> ds]
    ELSE IF cr THEN [ok |-> TRUE, ds |-> "dir"]
    ELSE [ok |-> FALSE, ds |-> ds]
EnsureDir(ds, cr) ==
    IF ds # "absent" THEN [ok |-> TRUE, ds |-> ds]
    ELSE IF cr THEN [ok |-> TRUE, ds |-> "dir"]
    ELSE [ok |-> FALSE, ds |-> ds]

\* extract_audio: import yt_dlp, under except ImportError / except Exception
ImportNext(o) ==
    CASE o = "ok" -> [next |-> "inproc", msg |-> "using_module"]
      [] o = "ImportError" -> [next |-> "cmd", msg |-> "import_failed"]
      [] OTHER -> [next |-> "false", msg |-> "unknown_error"]

\* extract_audio: ydl.extract_info and info.get('title', ...), under the same
\* except ImportError / except Exception handlers as the import
InprocNext_TitleRequired(o) ==
    IF o.kind = "raise"
    THEN IF o.exc = "ImportError"
         THEN [next |-> "cmd", msg |-> "import_failed", title |-> NoTitle]
         ELSE [next |-> "false", msg |-> "unknown_error", title |-> NoTitle]
    ELSE IF o.info.none \/ "title" \notin o.info.keys
         THEN [next |-> "false", msg |-> "unknown_error", title |-> NoTitle]
         ELSE [next |-> "true", msg |-> "success", title |-> o.info.title]
InprocNext(o) ==
    IF o.kind = "raise"
    THEN IF o.exc = "ImportError"
         THEN [next |-> "cmd", msg |-> "import_failed", title |-> NoTitle]
         ELSE [next |-> "false", msg |-> "unknown_error", title |-> NoTitle]
    ELSE IF o.info.none      \* None.get raises AttributeError
         THEN [next |-> "false", msg |-> "unknown_error", title |-> NoTitle]
         ELSE [next |-> "true", msg |-> "success",
               title |-> DictGet(o.info, "title", DefaultTitle)]

\* extract_audio: subprocess.run(cmd, check=True), under
\* except CalledProcessError / except Exception
CmdNext_NoCatchAll(o) ==
    CASE o = "ok" -> [next |-> "true", msg |-> "success_cmd"]
      [] o = "nonzero" -> [next |-> "false", msg |-> "extract_failed"]
      [] OTHER -> [next |-> "raised", msg |-> "none"]
CmdNext(o) ==
    CASE o = "ok" -> [next |-> "true", msg |-> "success_cmd"]
      [] o = "nonzero" -> [next |-> "false", msg |-> "extract_failed"]
      [] OTHER -> [next |-> "false", msg |-> "unknown_error"]

\* batch_extract_audio: for i, url in enumerate(video_urls, 1)
HasNext_OffByOne(idx, n) == idx + 1 < n
HasNext(idx, n) == idx < n

\* batch_extract_audio: the if/else on the value of extract_audio
Tally_Prepend(sc, fc, fu, url, ok) ==
    IF ok THEN [success_count |-> sc + 1, fail_count |-> fc, failed_urls |-> fu]
    ELSE [success_count |-> sc, fail_count |-> fc + 1, failed_urls |-> << url >> \o fu]
Tally(sc, fc, fu, url, ok) ==
    IF ok THEN [success_count |-> sc + 1, fail_count |-> fc, failed_urls |-> fu]
    ELSE [success_count |-> sc, fail_count |-> fc + 1, failed_urls |-> Append(fu, url)]

(***************************************************************************)
(* Initial states                                                          *)
(***************************************************************************)
Init ==
    /\ entry \in {"main", "batch"}
    /\ args_url \in (IF entry = "main" THEN {None, << >>, << "a" >>} ELSE {None})
    /\ args_file \in (IF entry = "main" THEN {None, << >>, << "f" >>} ELSE {None})
    /\ fileExists \in (IF Truthy(args_file) THEN BOOLEAN ELSE {FALSE})
    /\ fileReadable \in (IF fileExists THEN BOOLEAN ELSE {FALSE})
    /\ fileLines \in (IF fileReadable THEN Files ELSE {<< >>})
    /\ dirState \in {"absent", "dir", "file"}
    /\ creatable \in (IF dirState = "absent" THEN BOOLEAN ELSE {FALSE})
    /\ pc = (IF entry = "main" THEN "ffmpeg" ELSE "batch")
    /\ exitCode = -1
    /\ crashed = FALSE
    /\ depsRet = "none"
    /\ whichOut = "none"
    /\ pipShowOut = "none"
    /\ pipInstallOut = "none"
    /\ installAttempts = 0
    /\ fileChecked = FALSE
    /\ fileOpened = FALSE
    /\ batchStarted = (entry = "batch")
    /\ video_urls \in (IF entry = "batch" THEN SeqUpTo(DirectUrls, MaxUrls) ELSE {<< >>})
    /\ i = 0
    /\ success_count = 0
    /\ fail_count = 0
    /\ failed_urls = << >>
    /\ summaryPrinted = FALSE
    /\ epc = "idle"
    /\ eret = "none"
    /\ msg = "none"
    /\ title = NoTitle
    /\ mkdirFailed = FALSE
    /\ importOut = "none"
    /\ startedInproc = FALSE
    /\ startedCmd = FALSE
    /\ inprocOut = NoCall
    /\ cmdOut = "none"
    /\ calls = << >>
    /\ returns = << >>
    /\ everEnsured = FALSE
    /\ everDirFailed = FALSE

(***************************************************************************)
(* install_dependencies                                                    *)
(***************************************************************************)
\* sys.exit(code), or the interpreter ending the process
Exit(code, crash) ==
    /\ pc' = "exit"
    /\ exitCode' = code
    /\ crashed' = crash

\* check_ffmpeg() and the warning branch
InstallCheckFfmpeg ==
    /\ pc = "ffmpeg"
    /\ \E o \in ProcOutcomes :
        /\ whichOut' = o
        /\ IF CheckFfmpeg(o) = "raised"
           THEN depsRet' = "raised" /\ Exit(1, TRUE)      \* uncaught: traceback, status 1
           ELSE depsRet' = depsRet /\ pc' = "pipshow" /\ UNCHANGED << exitCode, crashed >>
    /\ UNCHANGED << pipShowOut, pipInstallOut, installAttempts, fileChecked, fileOpened >>
    /\ UNCHANGED << inputVars, batchVars, itemVars >>

\* subprocess.run(["pip3", "show", "yt-dlp"], check=True)
InstallPipShow ==
    /\ pc = "pipshow"
    /\ \E o \in ProcOutcomes :
        /\ pipShowOut' = o
        /\ CASE PipShow(o) = "true" ->
                  depsRet' = "true" /\ pc' = "gate" /\ UNCHANGED << exitCode, crashed >>
             [] PipShow(o) = "install" ->
                  depsRet' = depsRet /\ pc' = "pipinstall" /\ UNCHANGED << exitCode, crashed >>
             [] OTHER ->
                  depsRet' = "raised" /\ Exit(1, TRUE)
    /\ UNCHANGED << whichOut, pipInstallOut, installAttempts, fileChecked, fileOpened >>
    /\ UNCHANGED << inputVars, batchVars, itemVars >>

\* subprocess.run(["pip3", "install", "yt-dlp"], check=True)
InstallPipInstall ==
    /\ pc = "pipinstall"
    /\ \E o \in ProcOutcomes :
        /\ pipInstallOut' = o
        /\ depsRet' = PipInstall(o)
    /\ installAttempts' = installAttempts + 1
    /\ pc' = "gate"
    /\ UNCHANGED << whichOut, pipShowOut, exitCode, crashed, fileChecked, fileOpened >>
    /\ UNCHANGED << inputVars, batchVars, itemVars >>

(***************************************************************************)
(* extract_audio                                                           *)
(***************************************************************************)
\* the call extract_audio(url, ...): the banner is printed
ExtractBegin(url) ==
    /\ calls' = Append(calls, url)
    /\ epc' = "dir"
    /\ eret' = "none"
    /\ msg' = "banner"
    /\ title' = NoTitle
    /\ mkdirFailed' = FALSE
    /\ importOut' = "none"
    /\ startedInproc' = FALSE
    /\ startedCmd' = FALSE
    /\ inprocOut' = NoCall
    /\ cmdOut' = "none"
    /\ UNCHANGED << returns, everEnsured, everDirFailed, dirState >>

\* the next position of extract_audio, or its return
ExtractGoto(next, m, t) ==
    /\ epc' = (IF next \in {"true", "false", "raised"} THEN "ret" ELSE next)
    /\ eret' = (IF next \in {"true", "false", "raised"} THEN next ELSE eret)
    /\ returns' = (IF next \in {"true", "false"} THEN Append(returns, next = "true") ELSE returns)
    /\ msg' = m
    /\ title' = t

ExtractEnsureDir ==
    /\ epc = "dir"
    /\ LET r == EnsureDir(dirState, creatable) IN
        /\ dirState' = r.ds
        /\ mkdirFailed' = ~r.ok
        /\ everEnsured' = (everEnsured \/ r.ok)
        /\ everDirFailed' = (everDirFailed \/ (everEnsured /\ ~r.ok))
        /\ IF r.ok THEN ExtractGoto("import", msg, title)
                   ELSE ExtractGoto("false", "mkdir_failed", title)
    /\ UNCHANGED << importOut, startedInproc, startedCmd, inprocOut, cmdOut, calls >>
    /\ UNCHANGED << inputVars, mainVars, depsVars, batchVars >>

ExtractImport ==
    /\ epc = "import"
    /\ \E o \in {"ok", "ImportError", "Exception"} :
        /\ importOut' = o
        /\ ExtractGoto(ImportNext(o).next, ImportNext(o).msg, title)
    /\ UNCHANGED << mkdirFailed, startedInproc, startedCmd, inprocOut, cmdOut, calls,
                    everEnsured, everDirFailed, dirState >>
    /\ UNCHANGED << inputVars, mainVars, depsVars, batchVars >>

ExtractInproc ==
    /\ epc = "inproc"
    /\ startedInproc' = TRUE
    /\ \E o \in InprocOutcomes :
        /\ inprocOut' = o
        /\ ExtractGoto(InprocNext(o).next, InprocNext(o).msg, InprocNext(o).title)
    /\ UNCHANGED << mkdirFailed, importOut, startedCmd, cmdOut, calls, everEnsured,
                    everDirFailed, dirState >>
    /\ UNCHANGED << inputVars, mainVars, depsVars, batchVars >>

ExtractCmd ==
    /\ epc = "cmd"
    /\ startedCmd' = TRUE
    /\ \E o \in ProcOutcomes :
        /\ cmdOut' = o
        /\ ExtractGoto(CmdNext(o).next, CmdNext(o).msg, title)
    /\ UNCHANGED << mkdirFailed, importOut, startedInproc, inprocOut, calls, everEnsured,
                    everDirFailed, dirState >>
    /\ UNCHANGED << inputVars, mainVars, depsVars, batchVars >>

(***************************************************************************)
(* batch_extract_audio                                                     *)
(***************************************************************************)
\* the loop header takes the next url and calls extract_audio
BatchCall ==
    /\ pc = "batch"
    /\ epc = "idle"
    /\ HasNext(i, Len(video_urls))
    /\ i' = i + 1
    /\ ExtractBegin(video_urls[i + 1])
    /\ UNCHANGED << batchStarted, video_urls, success_count, fail_count, failed_urls, summaryPrinted >>
    /\ UNCHANGED << inputVars, mainVars, depsVars >>

\* extract_audio returned: the if/else of the loop body
BatchTally ==
    /\ pc = "batch"
    /\ epc = "ret"
    /\ eret \in {"true", "false"}
    /\ LET t == Tally(success_count, fail_count, failed_urls, video_urls[i], eret = "true") IN
        /\ success_count' = t.success_count
        /\ fail_count' = t.fail_count
        /\ failed_urls' = t.failed_urls
    /\ epc' = "idle"
    /\ UNCHANGED << batchStarted, video_urls, i, summaryPrinted >>
    /\ UNCHANGED << eret, msg, title, mkdirFailed, importOut, startedInproc, startedCmd, inprocOut, cmdOut,
                    calls, returns, everEnsured, everDirFailed, dirState >>
    /\ UNCHANGED << inputVars, mainVars, depsVars >>

\* the loop is exhausted: the summary is printed and the function returns
BatchSummary ==
    /\ pc = "batch"
    /\ epc = "idle"
    /\ ~HasNext(i, Len(video_urls))
    /\ summaryPrinted' = TRUE
    /\ pc' = "batch_ret"
    /\ UNCHANGED << exitCode, crashed, fileChecked, fileOpened >>
    /\ UNCHANGED << batchStarted, video_urls, i, success_count, fail_count, failed_urls >>
    /\ UNCHANGED << inputVars, depsVars, itemVars >>

(***************************************************************************)
(* main                                                                    *)
(***************************************************************************)
\* if not install_dependencies(): sys.exit(1)
MainDepsGate ==
    /\ pc = "gate"
    /\ IF DepsGate(depsRet) = "exit1"
       THEN Exit(1, FALSE)
       ELSE pc' = "dispatch" /\ UNCHANGED << exitCode, crashed >>
    /\ UNCHANGED << fileChecked, fileOpened >>
    /\ UNCHANGED << inputVars, depsVars, batchVars, itemVars >>

\* if args.url: extract_audio(args.url, ...)
MainSingle ==
    /\ pc = "dispatch"
    /\ Branch(args_url, args_file) = "single"
    /\ pc' = "single"
    /\ ExtractBegin(args_url)
    /\ UNCHANGED << exitCode, crashed, fileChecked, fileOpened >>
    /\ UNCHANGED << inputVars, depsVars, batchVars >>

\* extract_audio returned to main, main returns
MainSingleDone ==
    /\ pc = "single"
    /\ epc = "ret"
    /\ eret \in {"true", "false"}
    /\ Exit(SingleExitCode(eret), FALSE)
    /\ UNCHANGED << fileChecked, fileOpened >>
    /\ UNCHANGED << inputVars, depsVars, batchVars, itemVars >>

\* elif args.file: if not os.path.exists(args.file): sys.exit(1)
MainFileCheck ==
    /\ pc = "dispatch"
    /\ Branch(args_url, args_file) = "file"
    /\ fileChecked' = TRUE
    /\ IF fileExists
       THEN pc' = "read" /\ UNCHANGED << exitCode, crashed >>
       ELSE Exit(1, FALSE)
    /\ UNCHANGED fileOpened
    /\ UNCHANGED << inputVars, depsVars, batchVars, itemVars >>

\* the try block: open and read the file, then run the batch or exit
MainFileRead ==
    /\ pc = "read"
    /\ fileOpened' = TRUE
    /\ IF ~fileReadable
       THEN Exit(1, FALSE) /\ UNCHANGED << video_urls, batchStarted >>     \* except Exception
       ELSE IF ReadUrls(fileLines) # << >>
            THEN /\ video_urls' = ReadUrls(fileLines)
                 /\ batchStarted' = TRUE
                 /\ pc' = "batch"
                 /\ UNCHANGED << exitCode, crashed >>
            ELSE Exit(1, FALSE) /\ UNCHANGED << video_urls, batchStarted >>
    /\ UNCHANGED << fileChecked, i, success_count, fail_count, failed_urls, summaryPrinted >>
    /\ UNCHANGED << inputVars, depsVars, itemVars >>

\* batch_extract_audio returned to main, main returns
MainBatchDone ==
    /\ pc = "batch_ret"
    /\ entry = "main"
    /\ Exit(0, FALSE)
    /\ UNCHANGED << fileChecked, fileOpened >>
    /\ UNCHANGED << inputVars, depsVars, batchVars, itemVars >>

\* else: the usage hint and sys.exit(1)
MainUsage ==
    /\ pc = "dispatch"
    /\ Branch(args_url, args_file) = "usage"
    /\ Exit(1, FALSE)
    /\ UNCHANGED << fileChecked, fileOpened >>
    /\ UNCHANGED << inputVars, depsVars, batchVars, itemVars >>

Next ==
    \/ InstallCheckFfmpeg
    \/ InstallPipShow
    \/ InstallPipInstall
    \/ MainDepsGate
    \/ MainSingle
    \/ MainSingleDone
    \/ MainFileCheck
    \/ MainFileRead
    \/ MainBatchDone
    \/ MainUsage
    \/ BatchCall
    \/ BatchTally
    \/ BatchSummary
    \/ ExtractEnsureDir
    \/ ExtractImport
    \/ ExtractInproc
    \/ ExtractCmd

Spec == Init /\ [][Next]_vars

(***************************************************************************)
(* Vocabulary of the properties                                            *)
(***************************************************************************)
UrlGiven == Truthy(args_url)
FileGiven == Truthy(args_file)

\* a line with a character that is not whitespace
NonBlank(line) == \E k \in 1..Len(line) : line[k] # " "

DepsFailed == depsRet \in {"false", "raised"}
FileMissing == FileGiven /\ ~fileExists
FileUnreadable == FileGiven /\ fileExists /\ ~fileReadable
FileNoUrls ==
    /\ FileGiven /\ fileExists /\ fileReadable
    /\ \A k \in 1..Len(fileLines) : ~NonBlank(fileLines[k])
NeitherGiven == ~UrlGiven /\ ~FileGiven

\* the urls whose call returned False, in the order of the list
RECURSIVE FailedOf(_, _)
FailedOf(urls, rets) ==
    IF urls = << >> THEN << >>
    ELSE (IF Head(rets) THEN << >> ELSE << Head(urls) >>) \o FailedOf(Tail(urls), Tail(rets))

Returned == epc = "ret"

(***************************************************************************)
(* C1: when batch_extract_audio finishes on N urls of which K calls        *)
(* failed, success_count = N-K, fail_count = K and failed_urls is the      *)
(* failed urls in input order, duplicates kept (N = 0 included).           *)
(***************************************************************************)
C1_BatchCounts ==
    summaryPrinted =>
        LET N == Len(video_urls)
            K == Cardinality({ k \in 1..N : ~returns[k] })
        IN  /\ Len(returns) = N
            /\ success_count = N - K
            /\ fail_count = K
            /\ failed_urls = FailedOf(video_urls, returns)

C1_Witness ==
    /\ summaryPrinted
    /\ video_urls = << << "a" >>, << "b" >>, << "a" >> >>
    /\ returns = << FALSE, TRUE, FALSE >>
    /\ failed_urls = << << "a" >>, << "a" >> >>

(***************************************************************************)
(* C2, as claimed: extract_audio never raises, and every failure of one of *)
(* its steps (directory creation, import, in-process download, external    *)
(* process) makes the call return False with the error text printed.       *)
(***************************************************************************)
StepFailed ==
    \/ mkdirFailed
    \/ importOut \in {"ImportError", "Exception"}
    \/ inprocOut.kind = "raise"
    \/ cmdOut \in {"nonzero", "nolaunch"}

C2_Original ==
    /\ eret # "raised"
    /\ (Returned /\ StepFailed) => (eret = "false" /\ msg \in ErrorMsgs)

(***************************************************************************)
(* C2, amended: extract_audio never raises; a call that returns False has  *)
(* printed the error text; every step failure ends the call with False,    *)
(* except an ImportError (of the import or of the in-process download),    *)
(* after which the external process runs and decides the result.           *)
(***************************************************************************)
C2_Contained ==
    /\ eret # "raised"
    /\ Returned => eret \in {"true", "false"}
    /\ eret = "false" => msg \in ErrorMsgs
    /\ ( /\ Returned
         /\ \/ mkdirFailed
            \/ importOut = "Exception"
            \/ (inprocOut.kind = "raise" /\ inprocOut.exc # "ImportError")
            \/ (inprocOut.kind = "return" /\ inprocOut.info.none)
            \/ cmdOut \in {"nonzero", "nolaunch"} )
       => eret = "false"
    /\ ( /\ Returned
         /\ \/ importOut = "ImportError"
            \/ (inprocOut.kind = "raise" /\ inprocOut.exc = "ImportError") )
       => (startedCmd /\ (eret = "true" <=> cmdOut = "ok"))

C2_Witness ==
    /\ Returned
    /\ cmdOut = "nolaunch"
    /\ eret = "false"
    /\ msg = "unknown_error"

(***************************************************************************)
(* C3: a batch calls extract_audio once per url, in input order, one call  *)
(* at a time; a failed item does not stop the loop; the summary is printed *)
(* only after every item was processed.                                    *)
(***************************************************************************)
C3_Sequential ==
    batchStarted =>
        /\ Len(calls) <= Len(video_urls)
        /\ \A k \in 1..Len(calls) : calls[k] = video_urls[k]
        /\ Len(calls) = i
        /\ Len(returns) <= Len(calls)
        /\ Len(calls) <= Len(returns) + 1
        /\ epc = "idle" => Len(returns) = Len(calls)
        /\ (pc = "batch" /\ epc = "idle" /\ Len(calls) < Len(video_urls)) => ENABLED BatchCall
        /\ summaryPrinted => (calls = video_urls /\ Len(returns) = Len(video_urls))

C3_Witness ==
    /\ entry = "main"
    /\ summaryPrinted
    /\ Len(video_urls) = 3
    /\ returns = << FALSE, FALSE, TRUE >>

(***************************************************************************)
(* C4, as claimed: main exits with 1 exactly when the dependency check     *)
(* fails, the --file path does not exist, the file has no non-blank line,  *)
(* the file cannot be read, or neither --url nor --file was given; with 0  *)
(* otherwise.                                                              *)
(***************************************************************************)
C4_Original ==
    (entry = "main" /\ pc = "exit") =>
        /\ exitCode \in {0, 1}
        /\ exitCode = 1 <=>
               (DepsFailed \/ FileMissing \/ FileNoUrls \/ FileUnreadable \/ NeitherGiven)

(***************************************************************************)
(* C4, amended: main exits with 1 exactly when the dependency check fails, *)
(* or no non-empty --url was given and the --file path is absent, does not *)
(* exist, cannot be read or has no non-blank line; with 0 otherwise.       *)
(***************************************************************************)
C4_ExitCode ==
    (entry = "main" /\ pc = "exit") =>
        /\ exitCode \in {0, 1}
        /\ exitCode = 1 <=>
               \/ DepsFailed
               \/ (~UrlGiven /\ (~FileGiven \/ FileMissing \/ FileUnreadable \/ FileNoUrls))

C4_Witness ==
    /\ pc = "exit"
    /\ exitCode = 0
    /\ UrlGiven
    /\ FileMissing
    /\ eret = "false"

(***************************************************************************)
(* C5, as claimed: when the dependency check returns false, or the --file  *)
(* path is missing, unreadable or without urls, the run exits with 1 and   *)
(* extract_audio is never called; no call happens before the dependency    *)
(* check has returned true.                                                *)
(***************************************************************************)
C5_Original ==
    entry = "main" =>
        /\ (depsRet = "false" \/ FileMissing \/ FileUnreadable \/ FileNoUrls) =>
               (calls = << >> /\ (pc = "exit" => exitCode = 1))
        /\ calls # << >> => depsRet = "true"

(***************************************************************************)
(* C5, amended: when the dependency check returns false, or no non-empty   *)
(* --url was given and the --file path is missing, unreadable or without   *)
(* urls, the run exits with 1 and extract_audio is never called; no call   *)
(* happens before the dependency check has returned true.                  *)
(***************************************************************************)
C5_StartupAbort ==
    entry = "main" =>
        /\ (depsRet = "false" \/ (~UrlGiven /\ (FileMissing \/ FileUnreadable \/ FileNoUrls))) =>
               (calls = << >> /\ (pc = "exit" => exitCode = 1))
        /\ calls # << >> => depsRet = "true"

C5_Witness ==
    /\ pc = "exit"
    /\ exitCode = 1
    /\ depsRet = "true"
    /\ ~UrlGiven
    /\ FileNoUrls
    /\ Len(fileLines) = 2
    /\ fileOpened
    /\ calls = << >>

(***************************************************************************)
(* C6: install_dependencies always returns a boolean, False only when      *)
(* `pip3 show` reported the package missing and the one install attempt    *)
(* errored, whatever the outcome of running which and pip3.                *)
(***************************************************************************)
C6_AlwaysReturns ==
    entry = "main" =>
        /\ depsRet # "raised"
        /\ pc \notin {"ffmpeg", "pipshow", "pipinstall"} => depsRet \in {"true", "false"}
        /\ depsRet = "false" =>
               (pipShowOut = "nonzero" /\ pipInstallOut # "ok" /\ installAttempts = 1)

(***************************************************************************)
(* C7, as claimed: when the downloader call succeeds, on the in-process    *)
(* path or on the external-process path, extract_audio returns True and a  *)
(* non-empty title.                                                        *)
(***************************************************************************)
DownloadSucceeded ==
    \/ cmdOut = "ok"
    \/ (cmdOut = "none" /\ inprocOut.kind = "return")

C7_Original ==
    (Returned /\ DownloadSucceeded) =>
        (eret = "true" /\ title \notin {NoTitle, "", NoneVal})

(***************************************************************************)
(* C7, amended: when extract_info returns an info mapping, or the external *)
(* process exits with 0, extract_audio returns True; the title is only     *)
(* printed, on the in-process path, as the mapping's title value or the    *)
(* placeholder when the key is absent; no title on the external path.      *)
(***************************************************************************)
C7_SuccessTitle ==
    Returned =>
        /\ cmdOut = "ok" => (eret = "true" /\ title = NoTitle)
        /\ (cmdOut = "none" /\ inprocOut.kind = "return" /\ ~inprocOut.info.none) =>
               /\ eret = "true"
               /\ title = (IF "title" \in inprocOut.info.keys
                           THEN inprocOut.info.title ELSE DefaultTitle)

C7_Witness ==
    /\ Returned
    /\ inprocOut.kind = "return"
    /\ ~inprocOut.info.none
    /\ inprocOut.info.keys = {}
    /\ eret = "true"
    /\ title = DefaultTitle

(***************************************************************************)
(* C8: when output_dir does not exist and cannot be created, extract_audio *)
(* returns False with the creation error printed and no downloader call;   *)
(* the batch still attempts every later item; an existing path is never a  *)
(* creation failure, and the ensure-directory step never fails after it    *)
(* succeeded once.                                                         *)
(***************************************************************************)
C8_DirFailure ==
    /\ mkdirFailed =>
          /\ eret = "false" /\ msg = "mkdir_failed"
          /\ importOut = "none" /\ ~startedInproc /\ ~startedCmd
          /\ inprocOut = NoCall /\ cmdOut = "none"
          /\ dirState = "absent" /\ ~creatable
    /\ epc \in {"import", "inproc", "cmd"} => dirState # "absent"
    /\ (Returned /\ dirState = "absent") => (mkdirFailed /\ eret = "false")
    /\ ~everDirFailed
    /\ (summaryPrinted /\ dirState = "absent") =>
          (calls = video_urls /\ fail_count = Len(video_urls) /\ failed_urls = video_urls)

C8_Witness ==
    /\ summaryPrinted
    /\ Len(video_urls) = 3
    /\ mkdirFailed
    /\ fail_count = 3

(***************************************************************************)
(* C9: each url gets one download attempt through one backend: the         *)
(* external process is run only when the import failed, never after the    *)
(* in-process download of the same call has started.                       *)
(***************************************************************************)
C9_OneBackend ==
    /\ ~(startedInproc /\ startedCmd)
    /\ startedCmd => importOut = "ImportError"

(***************************************************************************)
(* C10: with a non-empty --url, only that url is extracted: the list file  *)
(* is neither checked nor opened, no batch runs and the file cannot cause  *)
(* exit code 1; an empty --url counts as not given.                        *)
(***************************************************************************)
C10_UrlWins ==
    entry = "main" =>
        /\ UrlGiven =>
              /\ ~fileChecked /\ ~fileOpened /\ ~batchStarted
              /\ calls \in {<< >>, << args_url >>}
              /\ (pc = "exit" /\ depsRet = "true") => (exitCode = 0 /\ calls = << args_url >>)
        /\ args_url = << >> =>
              /\ calls # << >> => batchStarted
              /\ (pc = "exit" /\ depsRet = "true" /\ ~FileGiven) => exitCode = 1
              /\ (FileGiven /\ pc \in {"read", "batch", "batch_ret", "exit"} /\ depsRet = "true")
                     => fileChecked

C10_Witness ==
    /\ pc = "exit"
    /\ exitCode = 0
    /\ UrlGiven
    /\ FileNoUrls
    /\ calls = << args_url >>

====
